---- MODULE Spec2Model ----
(***************************************************************************)
(* slowly.py: the retrying request pipeline and the session of HTTPClient  *)
(* (http.py), the event bus and the run() lifecycle of Client (client.py)  *)
(* and the letter paginator (models/letter.py), as state machines.         *)
(*                                                                         *)
(*   SpecRequest   one call of HTTPClient.request() against a session that *)
(*                 answers every attempt with any status and body          *)
(*   SpecBus       Client.wait_for / future cancellation / Client.dispatch *)
(*   SpecTasks     Client.dispatch, the handler tasks it schedules         *)
(*                 (_run_event, on_error) and the readiness flag           *)
(*   SpecHandlers  waiters and handler tasks of one event together         *)
(*   SpecPag       AsyncLetterIterator.__anext__ over any server pages     *)
(*   SpecPagFail   the same with page fetches that may fail                *)
(*   SpecPagConc   the same with several __anext__ calls in flight         *)
(*   SpecSession   HTTPClient.login / close / recreate and request()       *)
(*   SpecRun       Client.run(): runner task, run loop, interrupt          *)
(***************************************************************************)
EXTENDS Integers, Sequences, FiniteSets, TLC

VARIABLES
    reqPc,      \* position of the request() call: "idle", "attempt", "sleep", "done"
    tries,      \* the loop variable of `for tries in range(3)`
    reqLog,     \* the responses the session served to this call, in order
    slept,      \* the durations passed to asyncio.sleep, in order
    outcome,    \* how the call ended: none / return data / raise exc

    listeners,  \* Client._listeners: event key -> list of waiter ids
    waiters,    \* the waiters ever registered: id -> [key, pred]
    futures,    \* id -> state of the waiter's future
    attrs,      \* the attribute names getattr(self, ...) finds on the client
    tasks,      \* the _ClientEventTask objects created, in creation order
    ready,      \* Client._ready (asyncio.Event) is set
    callers,    \* callers of wait_until_ready(): id -> "suspended" / "resumed"
    nDispatch,  \* dispatch() calls made so far
    firstMatch, \* id -> the first payload dispatched under the waiter's key that
                \* its check accepted while its future was pending
    last,       \* the most recent operation: its name, and for a dispatch its
                \* arguments and the exception it raised

    server,     \* the pages the API serves: page number -> [n items, next link]
    curPage,    \* AsyncLetterIterator.current_page
    batch,      \* AsyncLetterIterator.letter_batch
    nextPage,   \* AsyncLetterIterator.next_page is truthy
    pagPc,      \* "idle", or "fetch" while __anext__ awaits fetch_user_letters
    fetched,    \* the page numbers requested, in order
    yielded,    \* the letters __anext__ returned, in order
    stops,      \* StopAsyncIteration raised so far
    fails,      \* __anext__ calls that ended with the exception of the fetch
    inflight,   \* with several calls at once: the pages of the calls that
                \* are suspended in fetch_user_letters, in order of calling

    connector,  \* HTTPClient.connector: "None", or "given" by the caller
    connClosed, \* the given connector has been closed
    sessions,   \* every ClientSession created, in order of creation
    cur,        \* HTTPClient.__session: 0 while the attribute is not set,
                \* else the position of the session in `sessions`
    token,      \* HTTPClient.token
    httpLast,   \* the most recent session operation and what it raised
    nHttp,      \* session operations so far

    runArg,     \* the token argument of Client.run()
    runPc,      \* Client.run(): "init", "looping", "returned", "raised"
    runnerPc,   \* runner(): "none", "scheduled", "main", "close", "done"
    runnerExc,  \* the exception travelling through runner()'s finally
    runnerOut,  \* the state of the task `future`
    mainOut,    \* how main() ended
    runOut,     \* what run() returned or raised
    interrupted,\* a signal handler has called loop.stop()
    trace       \* start / login / main / close, in the order they ran

reqVars == <<reqPc, tries, reqLog, slept, outcome>>
busVars == <<listeners, waiters, futures, attrs, tasks, ready, callers,
            nDispatch, firstMatch, last>>
pagVars == <<server, curPage, batch, nextPage, pagPc, fetched, yielded, stops,
             fails, inflight>>
sessVars == <<connector, connClosed, sessions, cur, token, httpLast, nHttp>>
runVars == <<runArg, runPc, runnerPc, runnerExc, runnerOut, mainOut, runOut, interrupted, trace>>
vars == <<reqPc, tries, reqLog, slept, outcome,
          listeners, waiters, futures, attrs, tasks, ready, callers,
          nDispatch, firstMatch, last,
          server, curPage, batch, nextPage, pagPc, fetched, yielded, stops,
          fails, inflight,
          connector, connClosed, sessions, cur, token, httpLast, nHttp,
          runArg, runPc, runnerPc, runnerExc, runnerOut, mainOut, runOut, interrupted, trace>>

-----------------------------------------------------------------------------
(* Bounds of the model *)

NBodies == 2        \* distinct response bodies the session can serve
MaxWaiters == 3     \* wait_for() calls in one behaviour
MaxDispatch == 2    \* dispatch() calls in one behaviour
MaxCallers == 2     \* wait_until_ready() calls in one behaviour
MaxPages == 3       \* pages the server holds
MaxItems == 2       \* letters on one page
MaxStops == 2       \* __anext__ calls made after the first StopAsyncIteration
MaxFails == 2       \* page fetches that fail in one behaviour
MaxCalls == 2       \* __anext__ calls suspended in their fetch at one time
MaxHttpOps == 4     \* login / close / recreate / request calls in one behaviour

-----------------------------------------------------------------------------
(* HTTPClient.request: http.py 103-153 *)

\* range(3)
MaxTries == 3

\* statuses the simulated session can answer with: both sides of every
\* comparison request() makes
Statuses == {199, 200, 204, 299, 300, 400, 403, 404, 500, 501, 502, 503}

Bodies == 1..NBodies

Responses == [status : Statuses, body : Bodies]

NoOutcome == [kind |-> "none", data |-> 0, exc |-> "", status |-> 0]

Returned(data) == [kind |-> "return", data |-> data, exc |-> "", status |-> 0]

\* HTTPException.__init__ stores response.status; Forbidden and NotFound inherit it
Raised(exc, status) == [kind |-> "raise", data |-> 0, exc |-> exc, status |-> status]

\* `for tries in range(3)`
MutTriesRange == 0..MaxTries
TriesRange == 0..(MaxTries - 1)

\* `300 > r.status >= 200`
IsSuccess(status) == 300 > status /\ status >= 200

\* `r.status in {500, 502}`
MutRetryable(status) == status \in {500, 502, 503}
Retryable(status) == status \in {500, 502}

\* the exception class the elif chain picks for a status that is neither
\* success nor retryable
MutErrorFor(status) ==
    IF status = 404 THEN "Forbidden"
    ELSE IF status = 403 THEN "NotFound"
    ELSE "HTTPException"
ErrorFor(status) ==
    IF status = 403 THEN "Forbidden"
    ELSE IF status = 404 THEN "NotFound"
    ELSE "HTTPException"

\* `asyncio.sleep(1 + tries * 2)`
BackoffDelay(t) == 1 + t * 2

\* request() is called: headers are built, the global gate is open (it is
\* set in __init__ and never cleared), the loop starts at tries = 0
RequestCall ==
    /\ reqPc = "idle"
    /\ reqPc' = "attempt"
    /\ tries' = 0
    /\ UNCHANGED <<reqLog, slept, outcome>>
    /\ UNCHANGED <<busVars, pagVars, sessVars, runVars>>

\* one pass of the loop body: the session answers with r, and the
\* if/elif chain decides
Attempt(r) ==
    /\ reqPc = "attempt"
    /\ tries \in TriesRange
    /\ reqLog' = Append(reqLog, r)
    /\ IF IsSuccess(r.status)
         THEN /\ outcome' = Returned(r.body)
              /\ reqPc' = "done"
              /\ UNCHANGED <<tries, slept>>
       ELSE IF Retryable(r.status)
         THEN /\ reqPc' = "sleep"
              /\ slept' = Append(slept, BackoffDelay(tries))
              /\ UNCHANGED <<tries, outcome>>
       ELSE /\ outcome' = Raised(ErrorFor(r.status), r.status)
            /\ reqPc' = "done"
            /\ UNCHANGED <<tries, slept>>
    /\ UNCHANGED <<busVars, pagVars, sessVars, runVars>>

\* the sleep ends and `continue` takes the next value of range(3)
Wake ==
    /\ reqPc = "sleep"
    /\ reqPc' = "attempt"
    /\ tries' = tries + 1
    /\ UNCHANGED <<reqLog, slept, outcome>>
    /\ UNCHANGED <<busVars, pagVars, sessVars, runVars>>

\* range(3) is exhausted: the statement after the loop
MutExhausted ==
    /\ reqPc = "attempt"
    /\ tries \notin TriesRange
    /\ outcome' = Raised("HTTPException", reqLog[Len(reqLog)].status)
    /\ reqPc' = "done"
    /\ UNCHANGED <<tries, reqLog, slept>>
    /\ UNCHANGED <<busVars, pagVars, sessVars, runVars>>
Exhausted ==
    /\ reqPc = "attempt"
    /\ tries \notin TriesRange
    /\ outcome' = Raised("RuntimeError", 0)
    /\ reqPc' = "done"
    /\ UNCHANGED <<tries, reqLog, slept>>
    /\ UNCHANGED <<busVars, pagVars, sessVars, runVars>>

InitRequest ==
    /\ reqPc = "idle"
    /\ tries = 0
    /\ reqLog = <<>>
    /\ slept = <<>>
    /\ outcome = NoOutcome

-----------------------------------------------------------------------------
(* Event names. A name is the sequence of its characters' code points, so  *)
(* that str.lower() and "on_" + event are computed, not looked up.         *)

Ev_x == <<120>>                             \* "x"
Ev_X == <<88>>                              \* "X"
Ev_y == <<121>>                             \* "y"
Ev_ready == <<114, 101, 97, 100, 121>>      \* "ready"
Ev_error == <<101, 114, 114, 111, 114>>     \* "error"

EventNames == {Ev_x, Ev_X, Ev_y, Ev_ready, Ev_error}

\* str.lower(), on the ASCII letters
Lower(s) == [i \in 1..Len(s) |-> IF s[i] \in 65..90 THEN s[i] + 32 ELSE s[i]]

\* `method = "on_" + event`
Method(e) == <<111, 110, 95>> \o e

\* the keys _listeners can be asked for
Keys == EventNames \cup {Lower(e) : e \in EventNames}

-----------------------------------------------------------------------------
(* Payloads, checks and futures *)

\* *args of one dispatch: no argument, one, several
Payloads == {<<>>, <<3>>, <<7>>, <<7, 3>>}

\* Python values a future can hold: None, one argument, the tuple of arguments
NoVal == [tag |-> "unset", v |-> <<>>]
NoneVal == [tag |-> "None", v |-> <<>>]
OneVal(a) == [tag |-> "value", v |-> <<a>>]
TupleVal(args) == [tag |-> "tuple", v |-> args]

PendingFut == [st |-> "pending", val |-> NoVal]
CancelledFut == [st |-> "cancelled", val |-> NoVal]
ResultFut(val) == [st |-> "result", val |-> val]
ExceptionFut(name) == [st |-> "exception", val |-> [tag |-> name, v |-> <<>>]]

\* the check arguments wait_for() is called with: None, or `lambda v: v > 5`
Checks == {"None", "gt5"}

\* `check = check if check else lambda *args: True`
CheckOf(c) == IF c = "None" THEN "default" ELSE c

\* `condition(*args)`: "true", "false", or "raise" (a one-parameter lambda
\* called with no or several arguments raises TypeError)
Condition(pred, args) ==
    IF pred = "default" THEN "true"
    ELSE IF Len(args) # 1 THEN "raise"
    ELSE IF args[1] > 5 THEN "true" ELSE "false"

\* the value lines 139-144 pass to set_result
MutResultOf(args) == IF Len(args) = 0 THEN NoneVal ELSE TupleVal(args)
ResultOf(args) ==
    IF Len(args) = 0 THEN NoneVal
    ELSE IF Len(args) = 1 THEN OneVal(args[1])
    ELSE TupleVal(args)

-----------------------------------------------------------------------------
(* Client.wait_for: client.py 92-110 *)

\* wait_for(event, check=c, timeout=...): a new future is appended to the list
\* under event.lower(). The returned asyncio.wait_for(future, timeout) cancels
\* the future when the timeout expires or when the caller is cancelled; the
\* timeout has no other effect, so it is not kept in the state
WaitFor(e, c) ==
    /\ Len(waiters) < MaxWaiters
    /\ LET id == Len(waiters) + 1
           ev == Lower(e)
       IN /\ waiters' = Append(waiters, [key |-> ev, pred |-> CheckOf(c)])
          /\ futures' = Append(futures, PendingFut)
          /\ firstMatch' = Append(firstMatch, NoVal)
          /\ listeners' = [listeners EXCEPT ![ev] = Append(@, id)]
    /\ last' = [op |-> "wait_for"]
    /\ UNCHANGED <<attrs, tasks, ready, callers, nDispatch>>
    /\ UNCHANGED <<reqVars, pagVars, sessVars, runVars>>

\* the awaiting caller is cancelled: asyncio.wait_for cancels the future
CancelWaiter(w) ==
    /\ w \in 1..Len(waiters)
    /\ futures[w].st = "pending"
    /\ futures' = [futures EXCEPT ![w] = CancelledFut]
    /\ last' = [op |-> "cancel"]
    /\ UNCHANGED <<listeners, waiters, attrs, tasks, ready, callers, nDispatch, firstMatch>>
    /\ UNCHANGED <<reqVars, pagVars, sessVars, runVars>>

\* the timeout of asyncio.wait_for(future, timeout) expires: it cancels the future
TimeoutWaiter(w) ==
    /\ w \in 1..Len(waiters)
    /\ futures[w].st = "pending"
    /\ futures' = [futures EXCEPT ![w] = CancelledFut]
    /\ last' = [op |-> "timeout"]
    /\ UNCHANGED <<listeners, waiters, attrs, tasks, ready, callers, nDispatch, firstMatch>>
    /\ UNCHANGED <<reqVars, pagVars, sessVars, runVars>>

-----------------------------------------------------------------------------
(* Client.dispatch: client.py 112-158 *)

\* `del listeners[idx]`, positions counted from 1
RemoveAt(lst, k) == SubSeq(lst, 1, k - 1) \o SubSeq(lst, k + 1, Len(lst))

\* `for idx in reversed(removed): del listeners[idx]`
RECURSIVE DelReversed(_, _)
DelReversed(lst, removed) ==
    IF removed = <<>> THEN [lst |-> lst, err |-> "none"]
    ELSE LET idx == removed[Len(removed)] IN
         IF idx > Len(lst) THEN [lst |-> lst, err |-> "IndexError"]
         ELSE DelReversed(RemoveAt(lst, idx), SubSeq(removed, 1, Len(removed) - 1))

\* lines 147-151, which stand inside the loop body: `removed` is compared
\* with, and applied to, the list as it is at the end of this iteration
RemoveBlock(st) ==
    IF Len(st.removed) = Len(st.lst)
      THEN IF st.inDict THEN [st EXCEPT !.inDict = FALSE]
           ELSE [st EXCEPT !.err = "KeyError"]
    ELSE LET d == DelReversed(st.lst, st.removed) IN
         [st EXCEPT !.lst = d.lst, !.err = d.err]

\* one iteration of `for i, (future, condition) in enumerate(listeners)`, on
\* the element the list iterator finds at position st.i of the list as it
\* is now
LoopBody(st, args) ==
    LET w == st.lst[st.i]
        next == [st EXCEPT !.i = @ + 1]
        marked == [next EXCEPT !.removed = Append(@, st.i)]
    IN IF st.futs[w].st = "cancelled"
         THEN marked                                   \* `continue`
       ELSE LET c == Condition(waiters[w].pred, args) IN
         IF c = "false" THEN RemoveBlock(next)
         ELSE IF st.futs[w].st # "pending"
           THEN [next EXCEPT !.err = "InvalidStateError"]
         ELSE RemoveBlock([marked EXCEPT !.futs[w] =
                  IF c = "raise" THEN ExceptionFut("TypeError")
                  ELSE ResultFut(ResultOf(args))])

\* the whole loop: the list iterator stops when its position passes the end
\* of the (possibly shortened) list
RECURSIVE DispatchLoop(_, _)
DispatchLoop(st, args) ==
    IF st.err # "none" \/ st.i > Len(st.lst) THEN st
    ELSE DispatchLoop(LoopBody(st, args), args)

\* lines 119-151: `listeners = self._listeners.get(event)`; `if listeners:`
AfterListeners(e, args) ==
    LET st0 == [i |-> 1, lst |-> listeners[e], removed |-> <<>>,
                futs |-> futures, inDict |-> TRUE, err |-> "none"]
    IN IF listeners[e] = <<>> THEN st0 ELSE DispatchLoop(st0, args)

\* lines 153-158: `getattr(self, method)` finds a handler
HasHandler(e) == Method(e) \in attrs

\* `asyncio.create_task(wrapped, ...)`: the task is created, not run
MutNewTask(e) == [method |-> Method(e), st |-> "running", hooked |-> FALSE]
NewTask(e) == [method |-> Method(e), st |-> "scheduled", hooked |-> FALSE]

\* firstMatch after a dispatch of e: a waiter registered under e whose future
\* was pending and whose check accepts the payload has met its first match
FirstMatchAfter(e, args) ==
    [w \in 1..Len(waiters) |->
        IF /\ firstMatch[w] = NoVal
           /\ waiters[w].key = e
           /\ futures[w].st = "pending"
           /\ Condition(waiters[w].pred, args) = "true"
          THEN ResultOf(args)
        ELSE firstMatch[w]]

Dispatch(e, args) ==
    /\ nDispatch < MaxDispatch
    /\ nDispatch' = nDispatch + 1
    /\ LET r == AfterListeners(e, args) IN
       /\ listeners' = [listeners EXCEPT ![e] = IF r.inDict THEN r.lst ELSE <<>>]
       /\ futures' = r.futs
       /\ tasks' = IF r.err = "none" /\ HasHandler(e)
                     THEN Append(tasks, NewTask(e))
                   ELSE tasks
       /\ last' = [op |-> "dispatch", event |-> e, args |-> args, raised |-> r.err]
    /\ firstMatch' = FirstMatchAfter(e, args)
    /\ UNCHANGED <<waiters, attrs, ready, callers>>
    /\ UNCHANGED <<reqVars, pagVars, sessVars, runVars>>

-----------------------------------------------------------------------------
(* Handlers: Client.event, _schedule_event, _run_event, on_error           *)
(* (client.py 62-86, 218-225)                                              *)

\* a coroutine function named on_<e> becomes an attribute of the client:
\* `setattr(self, coro.__name__, coro)`
RegisterEvent(e) ==
    /\ Method(e) \notin attrs
    /\ attrs' = attrs \cup {Method(e)}
    /\ last' = [op |-> "event"]
    /\ UNCHANGED <<listeners, waiters, futures, tasks, ready, callers, nDispatch, firstMatch>>
    /\ UNCHANGED <<reqVars, pagVars, sessVars, runVars>>

\* how a coroutine body ends: it returns, raises an Exception, or is cancelled
Endings == {"return", "exception", "cancelled"}

\* the loop starts the task: _run_event reaches `await coro(*args, **kwargs)`
TaskStart(t) ==
    /\ t \in 1..Len(tasks)
    /\ tasks[t].st = "scheduled"
    /\ tasks' = [tasks EXCEPT ![t].st = "running"]
    /\ last' = [op |-> "task"]
    /\ UNCHANGED <<listeners, waiters, futures, attrs, ready, callers, nDispatch, firstMatch>>
    /\ UNCHANGED <<reqVars, pagVars, sessVars, runVars>>

\* lines 65-72: the handler ends. CancelledError is passed over, an Exception
\* is logged and on_error is awaited, a return ends _run_event
HandlerEnd(t, how) ==
    /\ t \in 1..Len(tasks)
    /\ tasks[t].st = "running"
    /\ tasks' = [tasks EXCEPT ![t] =
                    IF how = "exception"
                      THEN [@ EXCEPT !.st = "on_error", !.hooked = TRUE]
                    ELSE [@ EXCEPT !.st = "done"]]
    /\ last' = [op |-> "task"]
    /\ UNCHANGED <<listeners, waiters, futures, attrs, ready, callers, nDispatch, firstMatch>>
    /\ UNCHANGED <<reqVars, pagVars, sessVars, runVars>>

\* lines 71-74: on_error (overridable) ends. Only CancelledError is caught
\* around it: an Exception it raises leaves _run_event and becomes the
\* exception of the task
OnErrorEnd(t, how) ==
    /\ t \in 1..Len(tasks)
    /\ tasks[t].st = "on_error"
    /\ tasks' = [tasks EXCEPT ![t].st = IF how = "exception" THEN "failed" ELSE "done"]
    /\ last' = [op |-> "task"]
    /\ UNCHANGED <<listeners, waiters, futures, attrs, ready, callers, nDispatch, firstMatch>>
    /\ UNCHANGED <<reqVars, pagVars, sessVars, runVars>>

-----------------------------------------------------------------------------
(* Readiness: client.py 48-49, 58-60, 88-90, 179-182 *)

\* wait_until_ready(): `await self._ready.wait()` returns at once when the
\* event is set and suspends the caller otherwise
WaitUntilReady ==
    /\ Len(callers) < MaxCallers
    /\ callers' = Append(callers, IF ready THEN "resumed" ELSE "suspended")
    /\ last' = [op |-> "wait_until_ready"]
    /\ UNCHANGED <<listeners, waiters, futures, attrs, tasks, ready, nDispatch, firstMatch>>
    /\ UNCHANGED <<reqVars, pagVars, sessVars, runVars>>

\* _handle_ready(), the entry "ready" of the _handlers mapping handed to
\* ConnectionState: `self._ready.set()` wakes every suspended caller
HandleReady ==
    /\ ready' = TRUE
    /\ callers' = [c \in 1..Len(callers) |-> "resumed"]
    /\ last' = [op |-> "_handle_ready"]
    /\ UNCHANGED <<listeners, waiters, futures, attrs, tasks, nDispatch, firstMatch>>
    /\ UNCHANGED <<reqVars, pagVars, sessVars, runVars>>

\* is_ready()
IsReady == ready

-----------------------------------------------------------------------------
(* AsyncLetterIterator: models/letter.py 68-101 *)

\* data["comments"]: the number of letters in "data" and whether
\* "next_page_url" is truthy
PageShapes == [n : 0..MaxItems, next : BOOLEAN]

Servers == UNION {[1..k -> PageShapes] : k \in 1..MaxPages}

\* what fetch_user_letters(user_id, page=p) returns; past its last page the
\* server answers an empty page without a link
ServerPage(p) == IF p \in 1..Len(server) THEN server[p] ELSE [n |-> 0, next |-> FALSE]

\* `[Letter(self.state, data=letter) for letter in data["comments"]["data"]]`:
\* a letter is named by its page and its place on the page
LettersOf(p) == [i \in 1..ServerPage(p).n |-> <<p, i>>]

\* `self.current_page += 1`
MutPageAfter(p) == p
PageAfter(p) == p + 1

\* `if self.current_page == 1 or self.next_page`
MutMayFetch == TRUE
MayFetch == curPage = 1 \/ nextPage

\* lines 80-81: the batch is not empty, its head is returned
AdvanceFromBatch ==
    /\ pagPc = "idle"
    /\ stops < MaxStops
    /\ batch # <<>>
    /\ yielded' = Append(yielded, Head(batch))
    /\ batch' = Tail(batch)
    /\ UNCHANGED <<server, curPage, nextPage, pagPc, fetched, stops, fails, inflight>>
    /\ UNCHANGED <<reqVars, busVars, sessVars, runVars>>

\* lines 83-86: the batch is empty and a page may be asked for: __anext__
\* suspends in fetch_user_letters(page=current_page)
AdvanceFetch ==
    /\ pagPc = "idle"
    /\ stops < MaxStops
    /\ batch = <<>>
    /\ MayFetch
    /\ pagPc' = "fetch"
    /\ fetched' = Append(fetched, curPage)
    /\ UNCHANGED <<server, curPage, batch, nextPage, yielded, stops, fails, inflight>>
    /\ UNCHANGED <<reqVars, busVars, sessVars, runVars>>

\* lines 87-95: the page arrives; the counter, the link and the batch are
\* set, then the head of the batch is returned or StopAsyncIteration raised
FetchReturn ==
    /\ pagPc = "fetch"
    /\ LET p == fetched[Len(fetched)]
           letters == LettersOf(p)
       IN /\ curPage' = PageAfter(curPage)
          /\ nextPage' = ServerPage(p).next
          /\ IF letters # <<>>
               THEN /\ yielded' = Append(yielded, Head(letters))
                    /\ batch' = Tail(letters)
                    /\ UNCHANGED stops
             ELSE /\ batch' = letters
                  /\ stops' = stops + 1
                  /\ UNCHANGED yielded
    /\ pagPc' = "idle"
    /\ UNCHANGED <<server, fetched, fails, inflight>>
    /\ UNCHANGED <<reqVars, busVars, sessVars, runVars>>

\* lines 83, 92-95: the batch is empty and no page may be asked for
AdvanceStop ==
    /\ pagPc = "idle"
    /\ stops < MaxStops
    /\ batch = <<>>
    /\ ~MayFetch
    /\ stops' = stops + 1
    /\ UNCHANGED <<server, curPage, batch, nextPage, pagPc, fetched, yielded, fails, inflight>>
    /\ UNCHANGED <<reqVars, busVars, sessVars, runVars>>

\* line 84: fetch_user_letters raises (request() ended with Forbidden,
\* NotFound, HTTPException or RuntimeError). The exception leaves __anext__
\* at the await, before any of the assignments of lines 87-91
MutFetchFail ==
    /\ pagPc = "fetch"
    /\ fails < MaxFails
    /\ fails' = fails + 1
    /\ pagPc' = "idle"
    /\ curPage' = PageAfter(curPage)
    /\ UNCHANGED <<server, batch, nextPage, fetched, yielded, stops, inflight>>
    /\ UNCHANGED <<reqVars, busVars, sessVars, runVars>>

FetchFail ==
    /\ pagPc = "fetch"
    /\ fails < MaxFails
    /\ fails' = fails + 1
    /\ pagPc' = "idle"
    /\ UNCHANGED <<server, curPage, batch, nextPage, fetched, yielded, stops, inflight>>
    /\ UNCHANGED <<reqVars, busVars, sessVars, runVars>>

\* several calls of __anext__ on one iterator (asyncio.gather, or two
\* tasks): a call that finds the batch empty and a page due suspends in
\* fetch_user_letters(page=current_page) (lines 83-86) while the calls made
\* before it are still suspended
CallFetch ==
    /\ Len(inflight) < MaxCalls
    /\ stops < MaxStops
    /\ batch = <<>>
    /\ MayFetch
    /\ inflight' = Append(inflight, curPage)
    /\ fetched' = Append(fetched, curPage)
    /\ UNCHANGED <<server, curPage, batch, nextPage, pagPc, yielded, stops, fails>>
    /\ UNCHANGED <<reqVars, busVars, sessVars, runVars>>

\* the fetch of the k-th suspended call returns and the call runs lines
\* 87-95 on the fields as they are now: the counter is incremented, the
\* link and the batch are overwritten with those of the page it asked for
CallReturn(k) ==
    /\ k \in 1..Len(inflight)
    /\ LET p == inflight[k]
           letters == LettersOf(p)
       IN /\ curPage' = PageAfter(curPage)
          /\ nextPage' = ServerPage(p).next
          /\ IF letters # <<>>
               THEN /\ yielded' = Append(yielded, Head(letters))
                    /\ batch' = Tail(letters)
                    /\ UNCHANGED stops
             ELSE /\ batch' = letters
                  /\ stops' = stops + 1
                  /\ UNCHANGED yielded
    /\ inflight' = RemoveAt(inflight, k)
    /\ UNCHANGED <<server, pagPc, fetched, fails>>
    /\ UNCHANGED <<reqVars, busVars, sessVars, runVars>>

\* __init__ (lines 69-74), with the server's pages srv
InitPaginator(srv) ==
    /\ server = srv
    /\ curPage = 1
    /\ batch = <<>>
    /\ nextPage = FALSE
    /\ pagPc = "idle"
    /\ fetched = <<>>
    /\ yielded = <<>>
    /\ stops = 0
    /\ fails = 0
    /\ inflight = <<>>

-----------------------------------------------------------------------------
(* HTTPClient.login / close / recreate and the session: http.py 79-82,      *)
(* 140, 155-180. The session is an aiohttp.ClientSession; what the code     *)
(* relies on of it is modelled here: a session built with connector=None     *)
(* makes a connector of its own; a session built with a given connector      *)
(* owns it (connector_owner defaults to True); close() closes the owned      *)
(* connector and lets go of it; `closed` is true when the session has no     *)
(* connector or its connector is closed; a request on a closed session       *)
(* raises RuntimeError.                                                      *)

\* the token strings login() is called with, as character codes: " t " and "u"
Tok_t == <<32, 116, 32>>
Tok_u == <<117>>
Tokens == {Tok_t, Tok_u}

\* `self.token: Optional[str] = None`
NoToken == <<0>>

\* `aiohttp.ClientSession(connector=self.connector)`: a new session, holding
\* its connector
NewSession == [released |-> FALSE]

\* `session.closed` of the session at position i, in the given state
SessionClosed(ss, cc, i) == ss[i].released \/ (connector = "given" /\ cc)

\* sessions that are open
OpenSessions == {i \in 1..Len(sessions) : ~SessionClosed(sessions, connClosed, i)}

\* the record kept of an operation
HttpOp(op, raised) == [op |-> op, raised |-> raised]

\* login(token): lines 162-164
DoLogin(tok) ==
    /\ sessions' = Append(sessions, NewSession)
    /\ cur' = Len(sessions) + 1
    /\ token' = tok
    /\ httpLast' = HttpOp("login", "none")
    /\ nHttp' = nHttp + 1
    /\ UNCHANGED <<connector, connClosed>>

\* close(): lines 171-172. Reading self.__session before any login raises
\* AttributeError (line 81 only annotates the attribute)
DoClose ==
    /\ IF cur = 0
         THEN /\ httpLast' = HttpOp("close", "AttributeError")
              /\ UNCHANGED <<sessions, connClosed>>
       ELSE /\ httpLast' = HttpOp("close", "none")
            /\ IF SessionClosed(sessions, connClosed, cur)
                 THEN UNCHANGED <<sessions, connClosed>>
               ELSE /\ sessions' = [sessions EXCEPT ![cur].released = TRUE]
                    /\ connClosed' = (connector = "given")
    /\ nHttp' = nHttp + 1
    /\ UNCHANGED <<connector, cur, token>>

\* `if self.__session and self.__session.closed`
MustRecreate == SessionClosed(sessions, connClosed, cur)

\* recreate(): lines 179-180
DoRecreate ==
    /\ IF cur = 0
         THEN /\ httpLast' = HttpOp("recreate", "AttributeError")
              /\ UNCHANGED <<sessions, cur>>
       ELSE /\ httpLast' = HttpOp("recreate", "none")
            /\ IF MustRecreate
                 THEN /\ sessions' = Append(sessions, NewSession)
                      /\ cur' = Len(sessions) + 1
               ELSE UNCHANGED <<sessions, cur>>
    /\ nHttp' = nHttp + 1
    /\ UNCHANGED <<connector, connClosed, token>>

\* request(): `self.__session.request(method, url, **kwargs)` at line 140 is
\* accepted by an open session and refused by a closed one
DoSessionRequest ==
    /\ httpLast' = HttpOp("request",
                          IF cur = 0 THEN "AttributeError"
                          ELSE IF SessionClosed(sessions, connClosed, cur) THEN "RuntimeError"
                          ELSE "none")
    /\ nHttp' = nHttp + 1
    /\ UNCHANGED <<connector, connClosed, sessions, cur, token>>

HttpLogin(tok) ==
    /\ nHttp < MaxHttpOps
    /\ DoLogin(tok)
    /\ UNCHANGED <<reqVars, busVars, pagVars, runVars>>

HttpClose ==
    /\ nHttp < MaxHttpOps
    /\ DoClose
    /\ UNCHANGED <<reqVars, busVars, pagVars, runVars>>

HttpRecreate ==
    /\ nHttp < MaxHttpOps
    /\ DoRecreate
    /\ UNCHANGED <<reqVars, busVars, pagVars, runVars>>

SessionRequest ==
    /\ nHttp < MaxHttpOps
    /\ DoSessionRequest
    /\ UNCHANGED <<reqVars, busVars, pagVars, runVars>>

\* HTTPClient.__init__ (lines 79-82) with the connector argument c
InitSession(c) ==
    /\ connector = c
    /\ connClosed = FALSE
    /\ sessions = <<>>
    /\ cur = 0
    /\ token = NoToken
    /\ httpLast = HttpOp("init", "none")
    /\ nHttp = 0

\* before Client.run() is called
InitRun ==
    /\ runArg = NoToken
    /\ runPc = "init"
    /\ runnerPc = "none"
    /\ runnerExc = "none"
    /\ runnerOut = [st |-> "none", val |-> NoVal]
    /\ mainOut = [how |-> "none", val |-> NoVal]
    /\ runOut = NoOutcome
    /\ interrupted = FALSE
    /\ trace = <<>>

-----------------------------------------------------------------------------
(* Client.run and the lifecycle: client.py 160-216 *)

\* `token.strip()`: the blanks (code 32) at both ends are dropped
RECURSIVE LStrip(_)
LStrip(t) == IF t # <<>> /\ Head(t) = 32 THEN LStrip(Tail(t)) ELSE t

RECURSIVE RStrip(_)
RStrip(t) == IF t # <<>> /\ t[Len(t)] = 32 THEN RStrip(SubSeq(t, 1, Len(t) - 1)) ELSE t

Strip(t) == RStrip(LStrip(t))

\* the token run() is called with: a string, or None
RunArgs == Tokens \cup {NoToken}

\* how the body of main() ends: it returns None (the default body is
\* `pass`), returns a value, or raises
MainEndings == {[how |-> "return", val |-> NoneVal],
                [how |-> "return", val |-> OneVal(42)],
                [how |-> "exception", val |-> NoVal]}

\* where runner() goes when start() or main() has ended: the `finally` clause
MutFinallyPc == "done"
FinallyPc == "close"

\* run(token), lines 186-206: the signal handlers are installed, runner() is
\* made a task with the done callback, the loop starts
RunCall(tok) ==
    /\ runPc = "init"
    /\ runArg' = tok
    /\ runPc' = "looping"
    /\ runnerPc' = "scheduled"
    /\ runnerOut' = PendingFut
    /\ UNCHANGED <<runnerExc, mainOut, runOut, interrupted, trace>>
    /\ UNCHANGED <<reqVars, busVars, pagVars, sessVars>>

\* runner() runs `await self.start(*args)`: start() awaits login(), which
\* awaits http.login(token.strip()); none of them suspends. With None for
\* the token, token.strip() raises AttributeError and runner() goes to its
\* finally clause; else the session is made and main() is entered
RunnerStart ==
    /\ runPc = "looping"
    /\ runnerPc = "scheduled"
    /\ IF runArg = NoToken
         THEN /\ runnerExc' = "AttributeError"
              /\ runnerPc' = FinallyPc
              /\ trace' = trace \o <<"start", "start_raised">>
              /\ UNCHANGED sessVars
       ELSE /\ DoLogin(Strip(runArg))
            /\ runnerPc' = "main"
            /\ trace' = trace \o <<"start", "login", "main">>
            /\ UNCHANGED runnerExc
    /\ UNCHANGED <<runArg, runPc, runnerOut, mainOut, runOut, interrupted>>
    /\ UNCHANGED <<reqVars, busVars, pagVars>>

\* the body of main() uses the session while it runs
MainRequest ==
    /\ runPc = "looping"
    /\ runnerPc = "main"
    /\ SessionRequest

MainClose ==
    /\ runPc = "looping"
    /\ runnerPc = "main"
    /\ HttpClose

MainRecreate ==
    /\ runPc = "looping"
    /\ runnerPc = "main"
    /\ HttpRecreate

\* main() ends
MainEnd(e) ==
    /\ runPc = "looping"
    /\ runnerPc = "main"
    /\ mainOut' = e
    /\ runnerExc' = IF e.how = "exception" THEN "Exception" ELSE "none"
    /\ runnerPc' = FinallyPc
    /\ trace' = Append(trace, "main_end")
    /\ UNCHANGED <<runArg, runPc, runnerOut, runOut, interrupted>>
    /\ UNCHANGED <<reqVars, busVars, pagVars, sessVars>>

\* `finally: await self.close()`, then runner() ends: without a return
\* statement its result is None; an exception of close() takes the place of
\* the one that was travelling
RunnerClose ==
    /\ runPc = "looping"
    /\ runnerPc = "close"
    /\ DoClose
    /\ trace' = Append(trace, "close")
    /\ runnerPc' = "done"
    /\ LET exc == IF httpLast'.raised # "none" THEN httpLast'.raised ELSE runnerExc
       IN /\ runnerExc' = exc
          /\ runnerOut' = IF exc = "none" THEN ResultFut(NoneVal) ELSE ExceptionFut(exc)
    /\ UNCHANGED <<runArg, runPc, mainOut, runOut, interrupted>>
    /\ UNCHANGED <<reqVars, busVars, pagVars>>

\* lines 200-216: the done callback stops the loop, run_forever() returns,
\* and run() ends with `return future.result()`
RunReturn ==
    /\ runPc = "looping"
    /\ runnerPc = "done"
    /\ IF runnerOut.st = "result"
         THEN runPc' = "returned" /\ runOut' = Returned(runnerOut.val)
       ELSE runPc' = "raised" /\ runOut' = Raised(runnerOut.val.tag, 0)
    /\ UNCHANGED <<runArg, runnerPc, runnerExc, runnerOut, mainOut, interrupted, trace>>
    /\ UNCHANGED <<reqVars, busVars, pagVars, sessVars>>

\* SIGINT or SIGTERM while main() is suspended: the handler installed at
\* lines 188-189 calls loop.stop(); run_forever() returns with the task
\* still pending, nothing resumes runner() any more, the task is not
\* cancelled, and future.result() raises InvalidStateError, which the
\* `except KeyboardInterrupt` at line 215 does not catch
Interrupt ==
    /\ runPc = "looping"
    /\ runnerPc = "main"
    /\ interrupted' = TRUE
    /\ runPc' = "raised"
    /\ runOut' = Raised("InvalidStateError", 0)
    /\ UNCHANGED <<runArg, runnerPc, runnerExc, runnerOut, mainOut, trace>>
    /\ UNCHANGED <<reqVars, busVars, pagVars, sessVars>>

-----------------------------------------------------------------------------

InitBus ==
    /\ listeners = [k \in Keys |-> <<>>]
    /\ waiters = <<>>
    /\ futures = <<>>
    /\ attrs = {Method(Ev_error)}
    /\ tasks = <<>>
    /\ ready = FALSE
    /\ callers = <<>>
    /\ nDispatch = 0
    /\ firstMatch = <<>>
    /\ last = [op |-> "init"]

Init == InitRequest /\ InitBus /\ InitPaginator(<<>>) /\ InitSession("None") /\ InitRun

NextRequest ==
    \/ RequestCall
    \/ \E r \in Responses : Attempt(r)
    \/ Wake
    \/ Exhausted

SpecRequest == Init /\ [][NextRequest]_vars

\* the event names used with the waiters
BusEvents == {Ev_x, Ev_X}

NextBus ==
    \/ \E e \in BusEvents, c \in Checks : WaitFor(e, c)
    \/ \E w \in 1..MaxWaiters : CancelWaiter(w)
    \/ \E w \in 1..MaxWaiters : TimeoutWaiter(w)
    \/ \E e \in BusEvents, args \in Payloads : Dispatch(e, args)

SpecBus == Init /\ [][NextBus]_vars

\* the event names and payloads used with the handlers
TaskEvents == {Ev_x, Ev_ready}
TaskPayloads == {<<>>, <<7>>}

NextTasks ==
    \/ \E e \in TaskEvents : RegisterEvent(e)
    \/ \E e \in TaskEvents, args \in TaskPayloads : Dispatch(e, args)
    \/ \E t \in 1..MaxDispatch : TaskStart(t)
    \/ \E t \in 1..MaxDispatch, how \in Endings : HandlerEnd(t, how)
    \/ \E t \in 1..MaxDispatch, how \in Endings : OnErrorEnd(t, how)
    \/ WaitUntilReady
    \/ HandleReady

SpecTasks == Init /\ [][NextTasks]_vars

\* the event names used with waiters and handlers together
HandlerEvents == {Ev_x}

NextHandlers ==
    \/ \E e \in HandlerEvents : RegisterEvent(e)
    \/ \E e \in HandlerEvents, c \in Checks : WaitFor(e, c)
    \/ \E e \in HandlerEvents, args \in TaskPayloads : Dispatch(e, args)
    \/ \E t \in 1..MaxDispatch : TaskStart(t)
    \/ \E t \in 1..MaxDispatch, how \in Endings : HandlerEnd(t, how)
    \/ \E t \in 1..MaxDispatch, how \in Endings : OnErrorEnd(t, how)

SpecHandlers == Init /\ [][NextHandlers]_vars

InitPag ==
    /\ InitRequest /\ InitBus /\ InitSession("None") /\ InitRun
    /\ \E srv \in Servers : InitPaginator(srv)

NextPag ==
    \/ AdvanceFromBatch
    \/ AdvanceFetch
    \/ FetchReturn
    \/ AdvanceStop

SpecPag == InitPag /\ [][NextPag]_vars

\* the paginator with page fetches that may fail
NextPagFail ==
    \/ AdvanceFromBatch
    \/ AdvanceFetch
    \/ FetchReturn
    \/ FetchFail
    \/ AdvanceStop

SpecPagFail == InitPag /\ [][NextPagFail]_vars

\* the paginator with up to MaxCalls calls of __anext__ at once
NextPagConc ==
    \/ AdvanceFromBatch
    \/ CallFetch
    \/ \E k \in 1..MaxCalls : CallReturn(k)
    \/ AdvanceStop

SpecPagConc == InitPag /\ [][NextPagConc]_vars

\* the connector argument of the client: none, or one the caller made
Connectors == {"None", "given"}

InitSess ==
    /\ InitRequest /\ InitBus /\ InitPaginator(<<>>) /\ InitRun
    /\ \E c \in Connectors : InitSession(c)

NextSession ==
    \/ \E tok \in Tokens : HttpLogin(tok)
    \/ HttpClose
    \/ HttpRecreate
    \/ SessionRequest

SpecSession == InitSess /\ [][NextSession]_vars

NextRun ==
    \/ \E tok \in RunArgs : RunCall(tok)
    \/ RunnerStart
    \/ MainRequest
    \/ MainClose
    \/ MainRecreate
    \/ \E e \in MainEndings : MainEnd(e)
    \/ RunnerClose
    \/ RunReturn
    \/ Interrupt

SpecRun == InitSess /\ [][NextRun]_vars

-----------------------------------------------------------------------------
(* Properties of request(), checked under SpecRequest *)

Is2xx(s) == s \in 200..299

\* C1: one call of request() sends at most 3 requests, and when a 2xx
\* response is reached (every earlier response having been retried) the call
\* has returned the body of that first 2xx response.
C1_AtMostThreeFirst2xxReturned ==
    /\ Len(reqLog) <= 3
    /\ \A i \in 1..Len(reqLog) :
          (Is2xx(reqLog[i].status) /\ \A j \in 1..(i - 1) : ~Is2xx(reqLog[j].status))
              => /\ reqPc = "done"
                 /\ outcome.kind = "return"
                 /\ outcome.data = reqLog[i].body

\* two retried responses, then a 2xx on the third attempt whose body differs
\* from the bodies served before
C1_Witness ==
    /\ reqPc = "done"
    /\ Len(reqLog) = 3
    /\ reqLog[3].status = 204
    /\ reqLog[1].body # reqLog[3].body
    /\ outcome.kind = "return"

\* C7: a response whose status is not 2xx and not 500/502 ends the call at
\* that attempt: Forbidden for 403, NotFound for 404, HTTPException for the
\* rest, each carrying the response status, and no further request is sent.
C7_ImmediateFailureByStatus ==
    \A i \in 1..Len(reqLog) :
        LET s == reqLog[i].status IN
        (~Is2xx(s) /\ s \notin {500, 502})
            => /\ i = Len(reqLog)
               /\ reqPc = "done"
               /\ outcome.kind = "raise"
               /\ outcome.status = s
               /\ (s = 403 => outcome.exc = "Forbidden")
               /\ (s = 404 => outcome.exc = "NotFound")
               /\ (s \notin {403, 404} => outcome.exc = "HTTPException")

\* a 403 answered to the second attempt, after one retry
C7_Witness ==
    /\ Len(reqLog) = 2
    /\ reqLog[2].status = 403
    /\ outcome.exc = "Forbidden"
    /\ outcome.status = 403

\* C8 as stated: only a 500 response is followed by another attempt.
C8_RetryOnlyOn500 ==
    /\ \A i \in 1..(Len(reqLog) - 1) : reqLog[i].status = 500
    /\ (reqPc = "sleep" => reqLog[Len(reqLog)].status = 500)

\* C8 amended: only a 500 or 502 response is followed by another attempt
\* (or by the back-off sleep that precedes it).
C8_RetryOnlyOn500Or502 ==
    /\ \A i \in 1..(Len(reqLog) - 1) : reqLog[i].status \in {500, 502}
    /\ (reqPc = "sleep" => reqLog[Len(reqLog)].status \in {500, 502})

\* a 502 was followed by another attempt
C8_Witness ==
    /\ Len(reqLog) >= 2
    /\ reqLog[1].status = 502

AllRetryable == \A i \in 1..Len(reqLog) : reqLog[i].status \in {500, 502}

\* C9: when all 3 attempts are answered 500 or 502 the call ends with
\* RuntimeError (no HTTPException, no return value), and RuntimeError is
\* raised only after exactly 3 requests, all answered 500 or 502.
C9_ExhaustionRaisesRuntimeError ==
    /\ (reqPc = "done" /\ Len(reqLog) = 3 /\ AllRetryable)
          => (outcome.kind = "raise" /\ outcome.exc = "RuntimeError")
    /\ (Len(reqLog) = 3 /\ AllRetryable)
          => outcome \in {NoOutcome, Raised("RuntimeError", 0)}
    /\ outcome.exc = "RuntimeError" => (Len(reqLog) = 3 /\ AllRetryable)

\* three retryable answers, of both kinds, the three sleeps, then the fault
C9_Witness ==
    /\ reqPc = "done"
    /\ Len(reqLog) = 3
    /\ reqLog[1].status = 500
    /\ reqLog[2].status = 502
    /\ reqLog[3].status = 500
    /\ slept = <<1, 3, 5>>
    /\ outcome.exc = "RuntimeError"

-----------------------------------------------------------------------------
(* Properties of the event bus, checked under SpecBus (C2, C3, C4, C6, C15, *)
(* C18, C19), under SpecTasks (C5, C10) and under SpecHandlers (C16)        *)

\* the step is a call of dispatch(); last' holds its event and payload
IsDispatchStep == nDispatch' = nDispatch + 1

\* w is in the list
InList(lst, w) == \E k \in 1..Len(lst) : lst[k] = w

\* C2: one dispatch(event, payload) resolves, with the payload, every waiter
\* registered on that event whose future is pending and whose predicate is
\* true on the payload, however many waiters the event has.
C2_DispatchResolvesEveryMatch ==
    [][IsDispatchStep =>
          \A k \in 1..Len(listeners[last'.event]) :
              LET w == listeners[last'.event][k] IN
              (/\ futures[w].st = "pending"
               /\ Condition(waiters[w].pred, last'.args) = "true")
                  => futures'[w] = ResultFut(ResultOf(last'.args))]_vars

\* C3: a waiter is resolved by the first dispatch, under the name it is
\* registered with, whose payload its check accepts, and with that payload;
\* it is resolved by no other dispatch.
C3_ResolvedByFirstMatch ==
    \A w \in 1..Len(waiters) :
        /\ firstMatch[w] # NoVal => futures[w] = ResultFut(firstMatch[w])
        /\ futures[w].st = "result" => futures[w].val = firstMatch[w]

\* C4: a cancelled future is never resolved afterwards, and a dispatch of
\* its event removes the cancelled waiter from the event's list, wherever it
\* stands in it.
C4_CancelledDroppedByNextDispatch ==
    [][/\ \A w \in 1..Len(waiters) :
              futures[w].st = "cancelled" => futures'[w].st = "cancelled"
       /\ IsDispatchStep =>
              \A w \in 1..Len(waiters) :
                  (futures[w].st = "cancelled" /\ InList(listeners[last'.event], w))
                      => ~InList(listeners'[last'.event], w)]_vars

\* C5: after dispatch('ready') the readiness flag is set and every caller
\* of wait_until_ready() has resumed.
C5_DispatchReadySetsFlag ==
    (last.op = "dispatch" /\ last.event = Ev_ready)
        => (IsReady /\ \A c \in 1..Len(callers) : callers[c] = "resumed")

\* C6: dispatch(E', payload) resolves the waiter registered by wait_for(E)
\* when E and E' differ only in letter case and the check accepts the
\* payload. Stated for a waiter that is alone in its list, so that the
\* order of the list plays no part.
C6_CaseInsensitiveDispatch ==
    [][IsDispatchStep =>
          \A w \in 1..Len(waiters) :
              (/\ Lower(last'.event) = waiters[w].key
               /\ listeners[waiters[w].key] = <<w>>
               /\ futures[w].st = "pending"
               /\ Condition(waiters[w].pred, last'.args) = "true")
                  => futures'[w] = ResultFut(ResultOf(last'.args))]_vars

\* C10: an exception raised in an on_<event> handler does not reach the
\* caller of dispatch() and does not leave the handler's task: it is passed
\* to on_error, and an exception raised by on_error is contained too, so no
\* task ends with an exception.
C10_HandlerExceptionsContained ==
    /\ last.op = "dispatch" => last.raised = "none"
    /\ \A t \in 1..Len(tasks) : tasks[t].st # "failed"

\* w is a waiter of the dispatched event whose future is pending when
\* dispatch() is called (read in the state before the dispatch step)
PendingOn(w) ==
    /\ InList(listeners[last'.event], w)
    /\ futures[w].st = "pending"

\* C15: when the predicate of a waiter raises during dispatch, the future of
\* that waiter fails with the exception and the waiter leaves the list;
\* dispatch() does not raise; every other pending waiter of the event is
\* still evaluated: resolved when its predicate is true, failed when it
\* raises, left pending and registered when it is false.
C15_RaisingPredicateIsolated ==
    [][IsDispatchStep =>
          ((\E r \in 1..Len(waiters) :
                PendingOn(r) /\ Condition(waiters[r].pred, last'.args) = "raise")
           => /\ last'.raised = "none"
              /\ \A w \in 1..Len(waiters) : PendingOn(w) =>
                    LET c == Condition(waiters[w].pred, last'.args) IN
                    /\ c = "raise" => /\ futures'[w] = ExceptionFut("TypeError")
                                      /\ ~InList(listeners'[last'.event], w)
                    /\ c = "true" => futures'[w].st = "result"
                    /\ c = "false" => /\ futures'[w].st = "pending"
                                      /\ InList(listeners'[last'.event], w))]_vars

\* C18: the value a waiter is resolved with is fixed by the number of
\* payload arguments of the resolving dispatch: None for none, the argument
\* itself for one, the tuple of all arguments in order for two or more; and
\* a future gets a result in a dispatch step only.
C18_ResultShapeByArity ==
    [][\A w \in 1..Len(waiters) :
          (futures[w].st # "result" /\ futures'[w].st = "result") =>
              /\ IsDispatchStep
              /\ LET a == last'.args
                     v == futures'[w].val
                 IN /\ Len(a) = 0 => v = [tag |-> "None", v |-> <<>>]
                    /\ Len(a) = 1 => v = [tag |-> "value", v |-> <<a[1]>>]
                    /\ Len(a) >= 2 => v = [tag |-> "tuple", v |-> a]]_vars

\* one waiter has received the single argument 7 itself, and the dispatch
\* just made, of the two arguments 7 and 3, has delivered the tuple (7, 3)
C18_Witness ==
    /\ \E w \in 1..Len(futures) : futures[w] = ResultFut(OneVal(7))
    /\ last.op = "dispatch"
    /\ last.args = <<7, 3>>
    /\ \E w \in 1..Len(futures) : futures[w] = ResultFut(TupleVal(<<7, 3>>))

\* C19: a dispatch leaves registered, and pending, every waiter of its event
\* that is pending and whose predicate is false on the payload, whatever the
\* other waiters of the event are.
C19_PendingWaiterKept ==
    [][IsDispatchStep =>
          \A w \in 1..Len(waiters) :
              (PendingOn(w) /\ Condition(waiters[w].pred, last'.args) = "false")
                  => /\ InList(listeners'[last'.event], w)
                     /\ futures'[w].st = "pending"]_vars

\* C16: dispatch() does not run or await the handler: it returns (without
\* raising) having appended one task, not yet started, exactly when the
\* client has an on_<event> attribute, and it leaves every earlier task as
\* it is; whatever the earlier tasks are doing, finished or not, the waiter
\* at the head of the event's list is resolved when it is pending and its
\* predicate accepts the payload.
C16_DispatchDoesNotAwaitHandlers ==
    [][IsDispatchStep =>
          LET e == last'.event IN
          /\ last'.raised = "none"
          /\ tasks' = IF Method(e) \in attrs
                        THEN Append(tasks, [method |-> Method(e),
                                            st |-> "scheduled", hooked |-> FALSE])
                      ELSE tasks
          /\ listeners[e] # <<>> =>
                LET w == listeners[e][1] IN
                (futures[w].st = "pending" /\ Condition(waiters[w].pred, last'.args) = "true")
                    => futures'[w] = ResultFut(ResultOf(last'.args))]_vars

\* the handler scheduled by the first dispatch has started and not finished;
\* the second dispatch, just made, has scheduled a second task and resolved
\* a waiter (the two waiters hold different payloads, so one dispatch each)
C16_Witness ==
    /\ last.op = "dispatch"
    /\ nDispatch = 2
    /\ Len(tasks) = 2
    /\ tasks[1].st = "running"
    /\ tasks[2].st = "scheduled"
    /\ \E w \in 1..Len(futures) : futures[w] = ResultFut(NoneVal)
    /\ \E w \in 1..Len(futures) : futures[w] = ResultFut(OneVal(7))

-----------------------------------------------------------------------------
(* Properties of the letter paginator, checked under SpecPag *)

\* the server holds a chain: every page has letters, every page but the
\* last carries a link
IsChain ==
    /\ \A p \in 1..Len(server) : server[p].n >= 1
    /\ \A p \in 1..(Len(server) - 1) : server[p].next
    /\ ~server[Len(server)].next

\* the letters of pages 1..k, page after page
RECURSIVE LettersUpTo(_)
LettersUpTo(k) == IF k = 0 THEN <<>> ELSE LettersUpTo(k - 1) \o LettersOf(k)

\* C11: over a chain of non-empty pages, __anext__ yields every letter once,
\* in page order and in-page order; pages 1, 2, ..., n are requested once
\* each, in that order and only when the batch is empty; the end is reported
\* after the last letter of the last page and not before.
C11_ChainYieldedOnceInOrder ==
    IsChain =>
        /\ \A i \in 1..Len(fetched) : fetched[i] = i
        /\ Len(fetched) <= Len(server)
        /\ pagPc = "fetch" => batch = <<>>
        /\ pagPc = "idle" => yielded \o batch = LettersUpTo(Len(fetched))
        /\ pagPc = "fetch" => yielded = LettersUpTo(Len(fetched) - 1)
        /\ stops > 0 => (yielded = LettersUpTo(Len(server)) /\ Len(fetched) = Len(server))

\* page 1 with 2 letters and a link, page 2 with 1 letter and no link: 3
\* letters yielded, then the end
C11_Witness ==
    /\ server = <<[n |-> 2, next |-> TRUE], [n |-> 1, next |-> FALSE]>>
    /\ yielded = <<<<1, 1>>, <<1, 2>>, <<2, 1>>>>
    /\ fetched = <<1, 2>>
    /\ stops = 1

\* C12: once __anext__ has raised StopAsyncIteration, every later call raises
\* it again and requests no page, whatever the server's pages are.
C12_ExhaustionIsTerminal ==
    [][stops > 0 => (fetched' = fetched /\ yielded' = yielded /\ pagPc' = "idle")]_vars

\* the page at which the links end: the first page without a next-page link
ChainEnd ==
    CHOOSE p \in 1..(Len(server) + 1) :
        /\ ~ServerPage(p).next
        /\ \A q \in 1..(p - 1) : ServerPage(q).next

\* the first page that is empty or has no next-page link
StopPage ==
    CHOOSE p \in 1..(Len(server) + 1) :
        /\ ServerPage(p).n = 0 \/ ~ServerPage(p).next
        /\ \A q \in 1..(p - 1) : ServerPage(q).n # 0 /\ ServerPage(q).next

\* the step in which __anext__ raises StopAsyncIteration for the first time
IsFirstStop == stops = 0 /\ stops' = 1

\* C21 (as stated): an empty page with a next-page link does not end the
\* iteration: when the end is first reported, every page up to the end of
\* the links has been fetched and all their letters have been yielded.
C21_EmptyLinkedPageSkipped ==
    [][IsFirstStop =>
          /\ \A p \in 1..Len(server) : p <= ChainEnd => InList(fetched', p)
          /\ yielded' = LettersUpTo(ChainEnd)]_vars

\* C21 (amended): the iteration ends at the first page that is empty,
\* whether or not it carries a link, or after the letters of the first page
\* without a link: when the end is first reported the pages 1..StopPage
\* have been fetched, once each and in order, and exactly their letters
\* have been yielded.
C21_EmptyPageEndsIteration ==
    [][IsFirstStop =>
          /\ Len(fetched') = StopPage
          /\ \A i \in 1..Len(fetched') : fetched'[i] = i
          /\ yielded' = LettersUpTo(StopPage)]_vars

\* page 1 with a letter and a link, page 2 empty with a link, page 3 with a
\* letter: the end is reported after page 2, page 3 not fetched
C21_Witness ==
    /\ server = <<[n |-> 1, next |-> TRUE], [n |-> 0, next |-> TRUE], [n |-> 1, next |-> FALSE]>>
    /\ fetched = <<1, 2>>
    /\ yielded = <<<<1, 1>>>>
    /\ stops = 1
    /\ pagPc = "idle"

-----------------------------------------------------------------------------
(* Properties of the paginator with failing fetches, checked under         *)
(* SpecPagFail                                                             *)

\* the step in which a call of __anext__ ends with the exception of its fetch
IsFetchFailure == fails' = fails + 1

\* C23: when the fetch inside __anext__ raises, the call ends with that
\* exception and leaves current_page, letter_batch and next_page (and what
\* was yielded) as they were, so a fetch is still due; every fetch asks for
\* current_page, which is the page of the failed fetch until a fetch of it
\* succeeds: the pages requested never go back and never jump over a page.
C23_FailedFetchKeepsState ==
    [][/\ IsFetchFailure =>
            /\ pagPc = "fetch" /\ pagPc' = "idle"
            /\ UNCHANGED <<curPage, batch, nextPage, yielded, stops>>
            /\ curPage' = fetched[Len(fetched)]
            /\ batch' = <<>> /\ (curPage' = 1 \/ nextPage')
       /\ Len(fetched') = Len(fetched) + 1 =>
            /\ fetched'[Len(fetched')] = curPage
            /\ Len(fetched) = 0 => fetched'[1] = 1
            /\ Len(fetched) > 0 =>
                  fetched'[Len(fetched')] \in
                      {fetched[Len(fetched)], fetched[Len(fetched)] + 1}]_vars

\* page 2 failed once and was requested again: both letters were yielded
C23_Witness ==
    /\ server = <<[n |-> 1, next |-> TRUE], [n |-> 1, next |-> FALSE]>>
    /\ fails = 1
    /\ fetched = <<1, 2, 2>>
    /\ yielded = <<<<1, 1>>, <<2, 1>>>>
    /\ stops = 1

-----------------------------------------------------------------------------
(* Properties of the paginator with calls in flight at once, checked under *)
(* SpecPagConc                                                             *)

\* the sequence holds no element twice
NoRepeat(q) == \A i, j \in 1..Len(q) : i # j => q[i] # q[j]

\* C24: with calls of __anext__ in flight at once, no page number is
\* requested twice, no letter is yielded twice, and when no call is
\* suspended and the batch is empty every letter of every page requested
\* has been yielded.
C24_ConcurrentAdvanceSafe ==
    /\ NoRepeat(fetched)
    /\ NoRepeat(yielded)
    /\ (inflight = <<>> /\ batch = <<>>) =>
          \A k \in 1..Len(fetched) :
              \A i \in 1..ServerPage(fetched[k]).n : InList(yielded, <<fetched[k], i>>)

-----------------------------------------------------------------------------
(* Properties of the session, checked under SpecSession *)

\* the step is a call of login, close, recreate or request on a client whose
\* session attribute is set
IsSessionStep == nHttp' = nHttp + 1 /\ cur # 0

\* C17: recreate() on a closed session puts a new, open session in its
\* place, keeps the connector and the token; on an open session it changes
\* nothing; a request() made right after a recreate() is accepted.
C17_RecreateReplacesClosedSession ==
    [][IsSessionStep =>
          /\ httpLast'.op = "recreate" =>
                IF SessionClosed(sessions, connClosed, cur)
                  THEN /\ sessions' = Append(sessions, NewSession)
                       /\ cur' = Len(sessions) + 1
                       /\ ~SessionClosed(sessions', connClosed', cur')
                       /\ token' = token
                       /\ connector' = connector
                ELSE UNCHANGED <<sessions, cur, token, connector, connClosed>>
          /\ (httpLast.op = "recreate" /\ httpLast'.op = "request")
                => httpLast'.raised = "none"]_vars

\* C22: at most one of the sessions the client created is open at any time:
\* no step leaves two sessions open, and the session attribute is given a
\* new session only when the session it held was closed.
C22_AtMostOneOpenSession ==
    [][/\ Cardinality({i \in 1..Len(sessions') :
                          ~SessionClosed(sessions', connClosed', i)}) <= 1
       /\ (cur # 0 /\ cur' # cur) => SessionClosed(sessions, connClosed, cur)]_vars

-----------------------------------------------------------------------------
(* Properties of the lifecycle, checked under SpecRun *)

\* the place of the step x in the trace, 0 when it has not run
Pos(x) == IF \E i \in 1..Len(trace) : trace[i] = x
            THEN CHOOSE i \in 1..Len(trace) : trace[i] = x
          ELSE 0

\* start() or main() has ended, by a return or by an exception
BodyEnded == Pos("start_raised") # 0 \/ Pos("main_end") # 0

\* C13: main() is entered only after start() has logged in, and not at all
\* when start() raised; once start() has raised or main() has ended, by a
\* return or by an exception, the next thing runner() does is close(), and
\* runner() does not end without it: close() is its last step, after
\* start() and after the end of main().
C13_CloseAfterStartAndMain ==
    /\ Pos("main") # 0 =>
          /\ Pos("login") # 0 /\ Pos("login") < Pos("main")
          /\ Pos("start_raised") = 0
    /\ runnerPc = "main" => (cur # 0 /\ token = Strip(runArg))
    /\ Pos("start_raised") # 0 => Pos("main") = 0
    /\ BodyEnded => runnerPc \in {"close", "done"}
    /\ runnerPc = "close" => (BodyEnded /\ Pos("close") = 0)
    /\ runnerPc = "done" =>
          /\ BodyEnded
          /\ trace[Len(trace)] = "close"
          /\ Pos("start") < Pos("close")
          /\ Pos("main") # 0 => Pos("main_end") < Pos("close")

\* the token " t " was stripped and logged in, main() raised, close() ran
C13_Witness ==
    /\ runArg = Tok_t
    /\ token = <<116>>
    /\ mainOut.how = "exception"
    /\ trace = <<"start", "login", "main", "main_end", "close">>
    /\ runnerPc = "done"

\* C14: run() returns what main() returned when start(), main() and close()
\* all ended without an exception, and returns None when an interrupt
\* stopped the loop.
C14_RunReturnsMainValue ==
    runPc \in {"returned", "raised"} =>
        /\ (interrupted) => runOut = Returned(NoneVal)
        /\ (~interrupted /\ mainOut.how = "return" /\ httpLast.raised = "none")
              => runOut = Returned(mainOut.val)

\* C20: after an interrupt that stopped the loop while main() was suspended,
\* run() has returned, not raised; close() has been executed; no session is
\* open.
C20_InterruptStillCloses ==
    (interrupted /\ runPc # "looping") =>
        /\ runPc = "returned"
        /\ Pos("close") # 0
        /\ OpenSessions = {}

====
